---------------------------- MODULE Spec2Model ----------------------------
(***************************************************************************)
(* Default uniform block layout and access of ProgramVk                    *)
(* (src/libANGLE/renderer/vulkan/ProgramVk.cpp).                           *)
(*                                                                         *)
(* The state is the part of the program's executable that the uniform     *)
(* accessors touch: per shader stage the per-location layout table         *)
(* (uniformLayout), the byte buffer (uniformData) and the dirty bit.       *)
(* Buffers are sequences of bytes; 32-bit values (GLfloat, GLint, GLuint)  *)
(* are their two's complement bit patterns, copied byte by byte as memcpy  *)
(* does.  ASSERT is modelled as the debug build's trap: a failed ASSERT    *)
(* sets fault to "assert" and the process takes no further step.  A store  *)
(* past the end of a buffer that no ASSERT guards is undefined behaviour:  *)
(* it either lands in the memory after the buffer (guard) or traps.        *)
(***************************************************************************)
EXTENDS Integers, Sequences, FiniteSets, TLC

VARIABLES
    linked,         \* the last link succeeded (uniform calls are legal)
    program,        \* index into Programs of the linked program state, 0 before
    uniformLayout,  \* [stage -> Seq(BlockMemberInfo)], index = location + 1
    uniformData,    \* [stage -> Seq(byte)]: DefaultUniformBlock::uniformData
    guard,          \* [stage -> Seq(byte)]: the memory that follows uniformData
    dirty,          \* mDefaultUniformBlocksDirty: set of stages
    fault,          \* "none" | "assert" | "trap"
    last,           \* the last operation and what it returned
    nWrites,        \* writes performed so far
    blockUniforms,  \* the variable list handed to the layout encoder
    blockOut        \* what the layout encoder returned for blockUniforms

vars == <<linked, program, uniformLayout, uniformData, guard, dirty, fault, last,
          nWrites, blockUniforms, blockOut>>

----------------------------------------------------------------------------
(* Bounds of the model.                                                    *)

\* writes (set-uniform calls) in one behaviour
MaxWrites == 2
\* the largest count of a set-uniform call
MaxCount == 2
\* bytes of memory modelled after each buffer
GuardBytes == 8
\* members of a variable list handed to the layout encoder on its own
MaxUniforms == 3
\* the array length of the array members of such a list
MaxArraySize == 2

----------------------------------------------------------------------------
(* GL types.                                                               *)

GL_FALSE == 0
GL_TRUE == 1

\* gl::AllShaderTypes() order, restricted to the graphics stages modelled.
ShaderTypes == <<"Vertex", "Fragment">>

ShaderTypeSet == {ShaderTypes[i] : i \in 1..Len(ShaderTypes)}

\* gl::ShaderMap<T>: one value per shader type.
ShaderMap(F(_)) == [Vertex |-> F("Vertex"), Fragment |-> F("Fragment")]

\* gl::UniformTypeInfo: componentType, componentCount, rows and columns.
TypeInfoTable ==
    [GL_FLOAT             |-> [componentType |-> "GL_FLOAT", componentCount |-> 1, rows |-> 1, cols |-> 1, isMatrix |-> FALSE, isOpaque |-> FALSE],
     GL_FLOAT_VEC2        |-> [componentType |-> "GL_FLOAT", componentCount |-> 2, rows |-> 2, cols |-> 1, isMatrix |-> FALSE, isOpaque |-> FALSE],
     GL_FLOAT_VEC3        |-> [componentType |-> "GL_FLOAT", componentCount |-> 3, rows |-> 3, cols |-> 1, isMatrix |-> FALSE, isOpaque |-> FALSE],
     GL_FLOAT_VEC4        |-> [componentType |-> "GL_FLOAT", componentCount |-> 4, rows |-> 4, cols |-> 1, isMatrix |-> FALSE, isOpaque |-> FALSE],
     GL_INT               |-> [componentType |-> "GL_INT", componentCount |-> 1, rows |-> 1, cols |-> 1, isMatrix |-> FALSE, isOpaque |-> FALSE],
     GL_INT_VEC2          |-> [componentType |-> "GL_INT", componentCount |-> 2, rows |-> 2, cols |-> 1, isMatrix |-> FALSE, isOpaque |-> FALSE],
     GL_INT_VEC3          |-> [componentType |-> "GL_INT", componentCount |-> 3, rows |-> 3, cols |-> 1, isMatrix |-> FALSE, isOpaque |-> FALSE],
     GL_INT_VEC4          |-> [componentType |-> "GL_INT", componentCount |-> 4, rows |-> 4, cols |-> 1, isMatrix |-> FALSE, isOpaque |-> FALSE],
     GL_UNSIGNED_INT      |-> [componentType |-> "GL_UNSIGNED_INT", componentCount |-> 1, rows |-> 1, cols |-> 1, isMatrix |-> FALSE, isOpaque |-> FALSE],
     GL_UNSIGNED_INT_VEC2 |-> [componentType |-> "GL_UNSIGNED_INT", componentCount |-> 2, rows |-> 2, cols |-> 1, isMatrix |-> FALSE, isOpaque |-> FALSE],
     GL_UNSIGNED_INT_VEC3 |-> [componentType |-> "GL_UNSIGNED_INT", componentCount |-> 3, rows |-> 3, cols |-> 1, isMatrix |-> FALSE, isOpaque |-> FALSE],
     GL_UNSIGNED_INT_VEC4 |-> [componentType |-> "GL_UNSIGNED_INT", componentCount |-> 4, rows |-> 4, cols |-> 1, isMatrix |-> FALSE, isOpaque |-> FALSE],
     GL_BOOL              |-> [componentType |-> "GL_BOOL", componentCount |-> 1, rows |-> 1, cols |-> 1, isMatrix |-> FALSE, isOpaque |-> FALSE],
     GL_BOOL_VEC2         |-> [componentType |-> "GL_BOOL", componentCount |-> 2, rows |-> 2, cols |-> 1, isMatrix |-> FALSE, isOpaque |-> FALSE],
     GL_BOOL_VEC3         |-> [componentType |-> "GL_BOOL", componentCount |-> 3, rows |-> 3, cols |-> 1, isMatrix |-> FALSE, isOpaque |-> FALSE],
     GL_BOOL_VEC4         |-> [componentType |-> "GL_BOOL", componentCount |-> 4, rows |-> 4, cols |-> 1, isMatrix |-> FALSE, isOpaque |-> FALSE],
     GL_FLOAT_MAT2        |-> [componentType |-> "GL_FLOAT", componentCount |-> 4, rows |-> 2, cols |-> 2, isMatrix |-> TRUE, isOpaque |-> FALSE],
     GL_FLOAT_MAT2x3      |-> [componentType |-> "GL_FLOAT", componentCount |-> 6, rows |-> 3, cols |-> 2, isMatrix |-> TRUE, isOpaque |-> FALSE],
     GL_FLOAT_MAT3x2      |-> [componentType |-> "GL_FLOAT", componentCount |-> 6, rows |-> 2, cols |-> 3, isMatrix |-> TRUE, isOpaque |-> FALSE],
     GL_SAMPLER_2D        |-> [componentType |-> "GL_INT", componentCount |-> 1, rows |-> 1, cols |-> 1, isMatrix |-> FALSE, isOpaque |-> TRUE],
     GL_UNSIGNED_INT_ATOMIC_COUNTER |-> [componentType |-> "GL_UNSIGNED_INT", componentCount |-> 1, rows |-> 1, cols |-> 1, isMatrix |-> FALSE, isOpaque |-> TRUE]]

typeInfo(type) == TypeInfoTable[type]

IsMatrixType(type) == typeInfo(type).isMatrix

IsOpaqueType(type) == typeInfo(type).isOpaque

IsSamplerType(type) == type = "GL_SAMPLER_2D"

\* gl::VariableBoolVectorType: the boolean type with the component count of `type`.
VariableBoolVectorType(type) ==
    CASE type \in {"GL_FLOAT", "GL_INT", "GL_UNSIGNED_INT"} -> "GL_BOOL"
      [] type \in {"GL_FLOAT_VEC2", "GL_INT_VEC2", "GL_UNSIGNED_INT_VEC2"} -> "GL_BOOL_VEC2"
      [] type \in {"GL_FLOAT_VEC3", "GL_INT_VEC3", "GL_UNSIGNED_INT_VEC3"} -> "GL_BOOL_VEC3"
      [] type \in {"GL_FLOAT_VEC4", "GL_INT_VEC4", "GL_UNSIGNED_INT_VEC4"} -> "GL_BOOL_VEC4"
      [] OTHER -> "GL_NONE"

\* The entry-point types of the setUniform{1,2,3,4}{f,i}v and setUniform1uiv
\* calls that callers make.
SetUniformEntryPoints ==
    {"GL_FLOAT", "GL_FLOAT_VEC2", "GL_FLOAT_VEC3", "GL_FLOAT_VEC4",
     "GL_INT", "GL_INT_VEC2", "GL_INT_VEC3", "GL_INT_VEC4",
     "GL_UNSIGNED_INT"}

\* The entry-point types of getUniform{f,i,ui}v.
GetUniformEntryPoints == {"GL_FLOAT", "GL_INT", "GL_UNSIGNED_INT"}

\* sizeof(T) for T in GLfloat, GLint, GLuint.
SizeofT == 4

----------------------------------------------------------------------------
(* Bytes and 32-bit values.                                                *)

Min(a, b) == IF a < b THEN a ELSE b

\* The four bytes (little endian) of the 32-bit value v, as memcpy sees them.
ToBytes(v) ==
    <<v % 256, (v \div 256) % 256, (v \div 65536) % 256, (v \div 16777216) % 256>>

\* The 32-bit value stored in bytes b[1..4].
FromBytes(b) ==
    b[1] + 256 * b[2] + 65536 * b[3]
      + 16777216 * (IF b[4] >= 128 THEN b[4] - 256 ELSE b[4])

\* The bytes of the sequence of 32-bit values vs, in order.
RECURSIVE ValuesToBytes(_)
ValuesToBytes(vs) ==
    IF vs = <<>> THEN <<>> ELSE ToBytes(Head(vs)) \o ValuesToBytes(Tail(vs))

\* memcpy(mem + at, bytes, Len(bytes)); mem is 0-based addressed.  Bytes that
\* fall outside mem are not part of the modelled memory.
Memcpy(mem, at, bytes) ==
    IF at >= Len(mem) THEN mem
    ELSE SubSeq(mem, 1, at)
           \o SubSeq(bytes, 1, Min(Len(bytes), Len(mem) - at))
           \o SubSeq(mem, at + Len(bytes) + 1, Len(mem))

\* The n 32-bit values read from mem at byte address at (n * 4 bytes).
ReadValues(mem, at, n) ==
    [k \in 1..n |-> FromBytes(SubSeq(mem, at + 4 * (k - 1) + 1, at + 4 * k))]

Zeros(n) == [i \in 1..n |-> 0]

----------------------------------------------------------------------------
(* The inputs of a link: the shaders' reflected uniforms, the linked       *)
(* uniforms and the uniform locations (gl::ProgramState).                  *)
(* A name is a sequence of tokens; an array's linked name ends in "[0]".   *)

ShaderVariable(name, type, arraySize) ==
    [name |-> name, type |-> type, arraySize |-> arraySize]

LinkedUniform(name, type, arraySize, inDefaultBlock, isFragmentInOut, activeShaders) ==
    [name |-> name, type |-> type, arraySize |-> arraySize,
     inDefaultBlock |-> inDefaultBlock, isFragmentInOut |-> isFragmentInOut,
     activeShaders |-> activeShaders]

\* gl::VariableLocation; index 0 stands for GL_INVALID_INDEX (an unused location).
VariableLocation(index, arrayIndex, ignored) ==
    [index |-> index, arrayIndex |-> arrayIndex, ignored |-> ignored]

\* float[3] in the vertex stage only, a vec4 in both stages at different
\* offsets, a sampler and an unused location.
ProgramA ==
    [linkedShaderStages |-> <<"Vertex", "Fragment">>,
     shaderUniforms |->
        [Vertex   |-> <<ShaderVariable(<<"uOffs">>, "GL_FLOAT", 3),
                        ShaderVariable(<<"uColor">>, "GL_FLOAT_VEC4", 0)>>,
         Fragment |-> <<ShaderVariable(<<"uTex">>, "GL_SAMPLER_2D", 0),
                        ShaderVariable(<<"uColor">>, "GL_FLOAT_VEC4", 0)>>],
     uniforms |->
        <<LinkedUniform(<<"uOffs", "[0]">>, "GL_FLOAT", 3, TRUE, FALSE, {"Vertex"}),
          LinkedUniform(<<"uColor">>, "GL_FLOAT_VEC4", 0, TRUE, FALSE, {"Vertex", "Fragment"}),
          LinkedUniform(<<"uTex">>, "GL_SAMPLER_2D", 0, TRUE, FALSE, {"Fragment"})>>,
     uniformLocations |->
        <<VariableLocation(1, 0, FALSE), VariableLocation(1, 1, FALSE),
          VariableLocation(1, 2, FALSE), VariableLocation(2, 0, FALSE),
          VariableLocation(3, 0, FALSE), VariableLocation(0, 0, FALSE)>>]

\* A mat2 array in the vertex stage, an ivec2 in both stages at different
\* offsets after it, and a location bound to an unreferenced uniform.
ProgramB ==
    [linkedShaderStages |-> <<"Vertex", "Fragment">>,
     shaderUniforms |->
        [Vertex   |-> <<ShaderVariable(<<"uMat">>, "GL_FLOAT_MAT2", 2),
                        ShaderVariable(<<"uIdx">>, "GL_INT_VEC2", 0)>>,
         Fragment |-> <<ShaderVariable(<<"uIdx">>, "GL_INT_VEC2", 0),
                        ShaderVariable(<<"uBias">>, "GL_INT", 0)>>],
     uniforms |->
        <<LinkedUniform(<<"uMat", "[0]">>, "GL_FLOAT_MAT2", 2, TRUE, FALSE, {"Vertex"}),
          LinkedUniform(<<"uIdx">>, "GL_INT_VEC2", 0, TRUE, FALSE, {"Vertex", "Fragment"}),
          LinkedUniform(<<"uBias">>, "GL_INT", 0, TRUE, FALSE, {"Fragment"})>>,
     uniformLocations |->
        <<VariableLocation(1, 0, FALSE), VariableLocation(1, 1, FALSE),
          VariableLocation(0, 0, TRUE), VariableLocation(2, 0, FALSE),
          VariableLocation(3, 0, FALSE)>>]

\* A vec4 array in both stages, a fragment in/out variable, an atomic counter
\* (opaque, outside the default block) and a uint in the fragment stage.
ProgramC ==
    [linkedShaderStages |-> <<"Vertex", "Fragment">>,
     shaderUniforms |->
        [Vertex   |-> <<ShaderVariable(<<"uPos">>, "GL_FLOAT_VEC4", 2)>>,
         Fragment |-> <<ShaderVariable(<<"uCounter">>, "GL_UNSIGNED_INT_ATOMIC_COUNTER", 0),
                        ShaderVariable(<<"uCount">>, "GL_UNSIGNED_INT", 0),
                        ShaderVariable(<<"uPos">>, "GL_FLOAT_VEC4", 2)>>],
     uniforms |->
        <<LinkedUniform(<<"uPos", "[0]">>, "GL_FLOAT_VEC4", 2, TRUE, FALSE, {"Vertex", "Fragment"}),
          LinkedUniform(<<"uLast">>, "GL_FLOAT_VEC4", 0, TRUE, TRUE, {"Fragment"}),
          LinkedUniform(<<"uCounter">>, "GL_UNSIGNED_INT_ATOMIC_COUNTER", 0, FALSE, FALSE, {"Fragment"}),
          LinkedUniform(<<"uCount">>, "GL_UNSIGNED_INT", 0, TRUE, FALSE, {"Fragment"})>>,
     uniformLocations |->
        <<VariableLocation(1, 0, FALSE), VariableLocation(1, 1, FALSE),
          VariableLocation(2, 0, FALSE), VariableLocation(3, 0, FALSE),
          VariableLocation(4, 0, FALSE)>>]

\* A bvec4 in both stages and a bool array in the fragment stage only.
ProgramD ==
    [linkedShaderStages |-> <<"Vertex", "Fragment">>,
     shaderUniforms |->
        [Vertex   |-> <<ShaderVariable(<<"uFlags">>, "GL_BOOL_VEC4", 0)>>,
         Fragment |-> <<ShaderVariable(<<"uFlags">>, "GL_BOOL_VEC4", 0),
                        ShaderVariable(<<"uOn">>, "GL_BOOL_VEC2", 2)>>],
     uniforms |->
        <<LinkedUniform(<<"uFlags">>, "GL_BOOL_VEC4", 0, TRUE, FALSE, {"Vertex", "Fragment"}),
          LinkedUniform(<<"uOn", "[0]">>, "GL_BOOL_VEC2", 2, TRUE, FALSE, {"Fragment"})>>,
     uniformLocations |->
        <<VariableLocation(1, 0, FALSE), VariableLocation(2, 0, FALSE),
          VariableLocation(2, 1, FALSE)>>]

Programs == <<ProgramA, ProgramB, ProgramC, ProgramD>>

isArray(u) == u.arraySize > 0

\* LinkedUniform::getArraySizeProduct / getBasicTypeElementCount.
getArraySizeProduct(u) == IF isArray(u) THEN u.arraySize ELSE 1

isSampler(u) == IsSamplerType(u.type)

isImage(u) == FALSE

\* LinkedUniform::getFirstShaderTypeWhereActive: the first stage of ShaderTypes
\* in which the uniform is active, "InvalidEnum" when there is none.
getFirstShaderTypeWhereActive(u) ==
    IF \E i \in 1..Len(ShaderTypes) : ShaderTypes[i] \in u.activeShaders
    THEN ShaderTypes[CHOOSE i \in 1..Len(ShaderTypes) :
                        /\ ShaderTypes[i] \in u.activeShaders
                        /\ \A j \in 1..(i - 1) : ShaderTypes[j] \notin u.activeShaders]
    ELSE "InvalidEnum"

\* gl::StripLastArrayIndex: the name without a trailing array subscript.
StripLastArrayIndex(name) ==
    IF Len(name) > 0 /\ name[Len(name)] = "[0]"
    THEN SubSeq(name, 1, Len(name) - 1)
    ELSE name

----------------------------------------------------------------------------
(* The layout encoder: std140 packing that ignores opaque types.           *)

\* sh::BlockMemberInfo; the default-constructed record is all -1.
BlockMemberInfo(offset, arrayStride, matrixStride, isRowMajorMatrix) ==
    [offset |-> offset, arrayStride |-> arrayStride, matrixStride |-> matrixStride,
     isRowMajorMatrix |-> isRowMajorMatrix]

kDefaultBlockMemberInfo == BlockMemberInfo(-1, -1, -1, FALSE)

Align(x, a) == ((x + a - 1) \div a) * a

\* std140 base alignment in bytes: a scalar aligns to its size, a vector to 2 or
\* 4 scalars, an array element or a matrix column to 16 bytes.
BaseAlignment(v) ==
    IF v.arraySize > 0 \/ IsMatrixType(v.type) THEN 16
    ELSE CASE typeInfo(v.type).rows = 1 -> SizeofT
           [] typeInfo(v.type).rows = 2 -> 2 * SizeofT
           [] OTHER -> 4 * SizeofT

\* Std140BlockEncoder::getBlockLayoutInfo: the member's record at the cursor.
encodeType(v, cursor) ==
    LET matrixStride == IF IsMatrixType(v.type) THEN 16 ELSE 0
        arrayStride  == IF v.arraySize = 0 THEN 0
                        ELSE IF IsMatrixType(v.type) THEN 16 * typeInfo(v.type).cols
                        ELSE 16
    IN  BlockMemberInfo(Align(cursor, BaseAlignment(v)), arrayStride, matrixStride, FALSE)

\* The std140 advance alone: an opaque member takes the space of its type.
advanceOffsetStd140(v, info, cursor) ==
    IF v.arraySize > 0 THEN info.offset + info.arrayStride * v.arraySize
    ELSE IF IsMatrixType(v.type) THEN info.offset + info.matrixStride * typeInfo(v.type).cols
    ELSE info.offset + SizeofT * typeInfo(v.type).componentCount

\* An advance that counts one element of an array instead of all of them.
advanceOffsetOneElement(v, info, cursor) ==
    IF IsOpaqueType(v.type) THEN cursor
    ELSE IF v.arraySize > 0 THEN info.offset + info.arrayStride
    ELSE IF IsMatrixType(v.type) THEN info.offset + info.matrixStride * typeInfo(v.type).cols
    ELSE info.offset + SizeofT * typeInfo(v.type).componentCount

\* An advance that packs the elements of an array tightly, without the stride.
advanceOffsetTight(v, info, cursor) ==
    IF IsOpaqueType(v.type) THEN cursor
    ELSE IF v.arraySize > 0
    THEN info.offset + SizeofT * typeInfo(v.type).componentCount * v.arraySize
    ELSE IF IsMatrixType(v.type) THEN info.offset + info.matrixStride * typeInfo(v.type).cols
    ELSE info.offset + SizeofT * typeInfo(v.type).componentCount

\* VulkanDefaultBlockEncoder::advanceOffset: the cursor after the member; an
\* opaque member takes no space.
advanceOffset(v, info, cursor) ==
    IF IsOpaqueType(v.type) THEN cursor
    ELSE IF v.arraySize > 0 THEN info.offset + info.arrayStride * v.arraySize
    ELSE IF IsMatrixType(v.type) THEN info.offset + info.matrixStride * typeInfo(v.type).cols
    ELSE info.offset + SizeofT * typeInfo(v.type).componentCount

\* sh::GetActiveUniformBlockInfo: walk the members in declaration order; an
\* opaque member gets no entry and, by advanceOffset, no space.  The result is
\* [map |-> Seq([name, info]), size |-> bytes].
RECURSIVE GetActiveUniformBlockInfo(_, _, _)
GetActiveUniformBlockInfo(uniforms, cursor, map) ==
    IF uniforms = <<>> THEN [map |-> map, size |-> cursor]
    ELSE LET v    == Head(uniforms)
             info == encodeType(v, cursor)
         IN  GetActiveUniformBlockInfo(
                 Tail(uniforms), advanceOffset(v, info, cursor),
                 IF IsOpaqueType(v.type) THEN map
                 ELSE Append(map, [name |-> v.name, info |-> info]))

InitDefaultUniformBlock(uniforms) ==
    IF uniforms = <<>> THEN [map |-> <<>>, size |-> 0]
    ELSE GetActiveUniformBlockInfo(uniforms, 0, <<>>)

\* shaderType is one of glExecutable.getLinkedShaderStages().
hasLinkedShaderStage(p, shaderType) ==
    \E i \in 1..Len(p.linkedShaderStages) : p.linkedShaderStages[i] = shaderType

\* generateUniformLayoutMapping: one encoding per linked stage; a stage that is
\* not linked keeps an empty map and a required size of 0.
generateUniformLayoutMapping(p) ==
    ShaderMap(LAMBDA s : IF hasLinkedShaderStage(p, s)
                         THEN InitDefaultUniformBlock(p.shaderUniforms[s])
                         ELSE [map |-> <<>>, size |-> 0])

----------------------------------------------------------------------------
(* The per-location layout table.                                          *)

\* layoutMap[shaderType].find(uniformName): the index of the entry, 0 for end().
find(map, name) ==
    IF \E i \in 1..Len(map) : map[i].name = name
    THEN CHOOSE i \in 1..Len(map) : map[i].name = name
    ELSE 0

\* The location takes part in the default block lookup (lines 355-359).
IsDefaultBlockLocation(p, location) ==
    /\ location.index # 0
    /\ ~location.ignored
    /\ LET uniform == p.uniforms[location.index]
       IN  /\ uniform.inDefaultBlock
           /\ ~isSampler(uniform)
           /\ ~isImage(uniform)
           /\ ~uniform.isFragmentInOut

\* The record of one location in one stage (lines 353-379): the stage's layout
\* of the uniform's array-stripped name, the all -1 record when there is none.
StageLayoutInfo(p, layoutMap, location, shaderType) ==
    IF IsDefaultBlockLocation(p, location) /\ hasLinkedShaderStage(p, shaderType)
    THEN LET uniform     == p.uniforms[location.index]
             uniformName == IF isArray(uniform) THEN StripLastArrayIndex(uniform.name)
                            ELSE uniform.name
             it          == find(layoutMap[shaderType].map, uniformName)
         IN  IF it # 0 THEN layoutMap[shaderType].map[it].info ELSE kDefaultBlockMemberInfo
    ELSE kDefaultBlockMemberInfo

\* ASSERT(uniformName.size() != uniform.name.size()) and ASSERT(found).
LocationAssertsHold(p, layoutInfo, location) ==
    IsDefaultBlockLocation(p, location) =>
        LET uniform == p.uniforms[location.index]
        IN  /\ isArray(uniform) => StripLastArrayIndex(uniform.name) # uniform.name
            /\ \E s \in ShaderTypeSet : layoutInfo[s].offset # -1

\* A loop body that pushes a record only onto the stages that found the uniform.
PushLocationIfFound(p, layoutInfo, location, ex) ==
    [ex EXCEPT
        !.layout = ShaderMap(LAMBDA s : IF /\ hasLinkedShaderStage(p, s)
                                           /\ layoutInfo[s].offset # -1
                                        THEN Append(ex.layout[s], layoutInfo[s])
                                        ELSE ex.layout[s]),
        !.fault = IF LocationAssertsHold(p, layoutInfo, location) THEN ex.fault
                  ELSE "assert"]

\* The loop body of initDefaultUniformLayoutMapping for one location: push the
\* location's record onto every linked stage's uniformLayout.
PushLocation(p, layoutInfo, location, ex) ==
    [ex EXCEPT
        !.layout = ShaderMap(LAMBDA s : IF hasLinkedShaderStage(p, s)
                                        THEN Append(ex.layout[s], layoutInfo[s])
                                        ELSE ex.layout[s]),
        !.fault = IF LocationAssertsHold(p, layoutInfo, location) THEN ex.fault
                  ELSE "assert"]

\* initDefaultUniformLayoutMapping: the locations in order, from location l on.
RECURSIVE initDefaultUniformLayoutMapping(_, _, _, _)
initDefaultUniformLayoutMapping(p, layoutMap, l, ex) ==
    IF l > Len(p.uniformLocations) THEN ex
    ELSE initDefaultUniformLayoutMapping(p, layoutMap, l + 1,
            PushLocation(p,
                         ShaderMap(LAMBDA s : StageLayoutInfo(p, layoutMap,
                                                              p.uniformLocations[l], s)),
                         p.uniformLocations[l], ex))

----------------------------------------------------------------------------
(* The caller's source arrays.  A 32-bit value is its bit pattern; the     *)
(* float patterns are 1.0, -0.0, 2.0, 0.0 and -1.0.                         *)

\* The source arrays a caller passes, by their first element's place in the
\* value tables.
Seeds == {1}

FloatValues == <<1065353216, (-2147483647) - 1, 1073741824, 0, -1082130432>>

IntValues == <<0, 5, -3, 0, 7>>

\* T of an entry point: the component type of the entry-point type.
EntryPointT(entryPointType) == typeInfo(entryPointType).componentType

\* Element k (from 0) of the source array `seed` of component type T.
SrcValue(T, seed, k) ==
    IF T = "GL_FLOAT"
    THEN FloatValues[((seed - 1 + k) % Len(FloatValues)) + 1]
    ELSE IntValues[((seed - 1 + k) % Len(IntValues)) + 1]

\* The source array v of a call: n values.
SrcArray(T, seed, n) == [k \in 1..n |-> SrcValue(T, seed, k - 1)]

\* source[c] == static_cast<T>(0): true of 0 and, for GLfloat, of -0.0.
IsZero(T, x) ==
    IF T = "GL_FLOAT" THEN x = 0 \/ x = (-2147483647) - 1 ELSE x = 0

----------------------------------------------------------------------------
(* Writes into one stage's buffer.                                         *)

\* The per-element loop of UpdateDefaultUniformBlock (lines 94-103) from
\* readIndex on; the ASSERT of an element precedes its memcpy.
RECURSIVE UpdateElements(_, _, _, _, _, _, _, _)
UpdateElements(readIndex, count, arrayIndex, componentCount, v, layoutInfo, data, elementSize) ==
    IF readIndex >= count THEN [data |-> data, ok |-> TRUE]
    ELSE LET writeIndex == arrayIndex + readIndex
             writePtr   == layoutInfo.offset + writeIndex * layoutInfo.arrayStride
             readPtr    == readIndex * componentCount
         IN  IF ~(writePtr + elementSize <= Len(data))
             THEN [data |-> data, ok |-> FALSE]
             ELSE UpdateElements(readIndex + 1, count, arrayIndex, componentCount, v,
                                 layoutInfo,
                                 Memcpy(data, writePtr,
                                        ValuesToBytes(SubSeq(v, readPtr + 1, readPtr + componentCount))),
                                 elementSize)

\* A copy that takes the contiguous branch whatever the array stride is.
UpdateDefaultUniformBlockContiguous(count, arrayIndex, componentCount, v, layoutInfo, data) ==
    LET elementSize == SizeofT * componentCount
        writePtr    == layoutInfo.offset + arrayIndex * layoutInfo.arrayStride
    IN  IF ~(writePtr + elementSize * count <= Len(data))
        THEN [data |-> data, ok |-> FALSE]
        ELSE [data |-> Memcpy(data, writePtr,
                              ValuesToBytes(SubSeq(v, 1, count * componentCount))),
              ok |-> TRUE]

\* UpdateDefaultUniformBlock<T>: [data |-> the buffer after, ok |-> no ASSERT failed].
UpdateDefaultUniformBlock(count, arrayIndex, componentCount, v, layoutInfo, data) ==
    LET elementSize == SizeofT * componentCount
    IN  IF layoutInfo.arrayStride = 0 \/ layoutInfo.arrayStride = elementSize
        THEN LET writePtr == layoutInfo.offset + arrayIndex * layoutInfo.arrayStride
             IN  IF ~(writePtr + elementSize * count <= Len(data))
                 THEN [data |-> data, ok |-> FALSE]
                 ELSE [data |-> Memcpy(data, writePtr,
                                       ValuesToBytes(SubSeq(v, 1, count * componentCount))),
                       ok |-> TRUE]
        ELSE UpdateElements(0, count, arrayIndex, componentCount, v, layoutInfo, data,
                            elementSize)

\* A store of the source components as they are.
CoerceElementUnchanged(T, source) == source

\* dst[c] = (source[c] == static_cast<T>(0)) ? GL_FALSE : GL_TRUE, for one element.
CoerceElement(T, source) ==
    [c \in 1..Len(source) |-> IF IsZero(T, source[c]) THEN GL_FALSE ELSE GL_TRUE]

\* The boolean branch's loop over i (lines 444-457) on the memory mem that
\* starts at uniformData.data(): no bound is checked.
RECURSIVE CoerceElements(_, _, _, _, _, _, _)
CoerceElements(i, count, arrayIndex, componentCount, T, v, st) ==
    IF i >= count THEN st.mem
    ELSE LET initialArrayOffset == arrayIndex * st.layoutInfo.arrayStride + st.layoutInfo.offset
             elementOffset      == i * st.layoutInfo.arrayStride + initialArrayOffset
             source             == SubSeq(v, i * componentCount + 1, (i + 1) * componentCount)
         IN  CoerceElements(i + 1, count, arrayIndex, componentCount, T, v,
                [st EXCEPT !.mem = Memcpy(st.mem, elementOffset,
                                          ValuesToBytes(CoerceElement(T, source)))])

\* One past the last byte the boolean branch stores to.
CoerceEnd(count, arrayIndex, componentCount, layoutInfo) ==
    layoutInfo.offset + (arrayIndex + count - 1) * layoutInfo.arrayStride
      + SizeofT * componentCount

----------------------------------------------------------------------------
(* setUniformImpl and setUniformMatrixfv over the linked stages.  The      *)
(* running state st is [data, guard, dirty, fault]; a fault ends the call. *)

\* An assignment of the stage's bit in place of set(): the other bits are lost.
SetDirtyAssign(dirtyBits, shaderType) == {shaderType}

\* Line 424, 459, 588: mDefaultUniformBlocksDirty.set(shaderType).
SetDirty(dirtyBits, shaderType) == dirtyBits \cup {shaderType}

\* A loop body that marks the stage dirty whether or not it lays the location out.
UpdateStageDirtyAlways(st, shaderType, layoutInfo, count, arrayIndex, componentCount, v) ==
    IF layoutInfo.offset = -1
    THEN [st EXCEPT !.dirty = SetDirty(st.dirty, shaderType)]
    ELSE LET r == UpdateDefaultUniformBlock(count, arrayIndex, componentCount, v,
                                            layoutInfo, st.data[shaderType])
         IN  IF r.ok
             THEN [st EXCEPT !.data[shaderType] = r.data,
                             !.dirty = SetDirty(st.dirty, shaderType)]
             ELSE [st EXCEPT !.data[shaderType] = r.data, !.fault = "assert"]

\* A loop that stops after the first stage: only the vertex buffer is written.
UpdateStageFirstOnly(st, shaderType, layoutInfo, count, arrayIndex, componentCount, v) ==
    IF layoutInfo.offset = -1 \/ shaderType # ShaderTypes[1] THEN st
    ELSE LET r == UpdateDefaultUniformBlock(count, arrayIndex, componentCount, v,
                                            layoutInfo, st.data[shaderType])
         IN  IF r.ok
             THEN [st EXCEPT !.data[shaderType] = r.data,
                             !.dirty = SetDirty(st.dirty, shaderType)]
             ELSE [st EXCEPT !.data[shaderType] = r.data, !.fault = "assert"]

\* The body of the loop of lines 410-425 for one stage (matching type).
UpdateStage(st, shaderType, layoutInfo, count, arrayIndex, componentCount, v) ==
    IF layoutInfo.offset = -1 THEN st
    ELSE LET r == UpdateDefaultUniformBlock(count, arrayIndex, componentCount, v,
                                            layoutInfo, st.data[shaderType])
         IN  IF r.ok
             THEN [st EXCEPT !.data[shaderType] = r.data,
                             !.dirty = SetDirty(st.dirty, shaderType)]
             ELSE [st EXCEPT !.data[shaderType] = r.data, !.fault = "assert"]

\* The body of the loop of lines 429-460 for one stage (boolean coercion).  A
\* store past the end of the buffer is undefined: under ub = "corrupt" it lands
\* in the memory after the buffer, under ub = "trap" the process traps.
CoerceStage(st, shaderType, layoutInfo, count, arrayIndex, componentCount, T, v, ub) ==
    IF layoutInfo.offset = -1 THEN st
    ELSE LET size == Len(st.data[shaderType])
             mem  == CoerceElements(0, count, arrayIndex, componentCount, T, v,
                                    [mem |-> st.data[shaderType] \o st.guard[shaderType],
                                     layoutInfo |-> layoutInfo])
             inBounds == CoerceEnd(count, arrayIndex, componentCount, layoutInfo) <= size
         IN  IF inBounds \/ ub = "corrupt"
             THEN [st EXCEPT !.data[shaderType] = SubSeq(mem, 1, size),
                             !.guard[shaderType] = SubSeq(mem, size + 1, Len(mem)),
                             !.dirty = SetDirty(st.dirty, shaderType)]
             ELSE [st EXCEPT !.data[shaderType] = SubSeq(mem, 1, size),
                             !.fault = "trap"]

\* setUniformImpl<T>(location, count, v, entryPointType) from linked stage i on.
RECURSIVE setUniformImpl(_, _, _, _, _, _, _, _, _)
setUniformImpl(st, i, p, layout, location, count, v, entryPointType, ub) ==
    IF i > Len(p.linkedShaderStages) \/ st.fault # "none" THEN st
    ELSE LET shaderType     == p.linkedShaderStages[i]
             locationInfo   == p.uniformLocations[location + 1]
             linkedUniform  == p.uniforms[locationInfo.index]
             layoutInfo     == layout[shaderType][location + 1]
             componentCount == typeInfo(linkedUniform.type).componentCount
             next ==
                IF linkedUniform.type = entryPointType
                THEN UpdateStage(st, shaderType, layoutInfo, count,
                                 locationInfo.arrayIndex, componentCount, v)
                ELSE CoerceStage(st, shaderType, layoutInfo, count,
                                 locationInfo.arrayIndex, componentCount,
                                 EntryPointT(entryPointType), v, ub)
         IN  setUniformImpl(next, i + 1, p, layout, location, count, v, entryPointType, ub)

\* Where SetFloatUniformMatrixGLSL<cols, rows>::Run puts matrix i of the call:
\* column c of array element arrayIndex + i starts at (arrayIndex + i) * cols * 16
\* + c * 16 and holds `rows` floats; a transposed source is row major.
RECURSIVE SetFloatUniformMatrixGLSL(_, _, _, _, _, _, _, _, _)
SetFloatUniformMatrixGLSL(k, cols, rows, arrayIndex, count, transpose, value, mem, base) ==
    IF k >= count * cols * rows THEN mem
    ELSE LET i == k \div (cols * rows)
             c == (k % (cols * rows)) \div rows
             r == k % rows
             src == i * cols * rows + (IF transpose THEN r * cols + c ELSE c * rows + r)
             dst == base + (arrayIndex + i) * cols * 16 + c * 16 + r * SizeofT
         IN  SetFloatUniformMatrixGLSL(k + 1, cols, rows, arrayIndex, count, transpose, value,
                                       Memcpy(mem, dst, ToBytes(value[src + 1])), base)

\* The body of the loop of lines 573-589 for one stage.  A count that runs past
\* the uniform's elements is a fatal bounds violation.
MatrixStage(st, shaderType, layoutInfo, linkedUniform, count, arrayIndex, transpose, value) ==
    IF layoutInfo.offset = -1 THEN st
    ELSE LET cols == typeInfo(linkedUniform.type).cols
             rows == typeInfo(linkedUniform.type).rows
         IN  IF arrayIndex + count > getArraySizeProduct(linkedUniform)
             THEN [st EXCEPT !.fault = "assert"]
             ELSE [st EXCEPT
                      !.data[shaderType] =
                          SetFloatUniformMatrixGLSL(0, cols, rows, arrayIndex, count, transpose,
                                                    value, st.data[shaderType], layoutInfo.offset),
                      !.dirty = SetDirty(st.dirty, shaderType)]

\* setUniformMatrixfv<cols, rows>(location, count, transpose, value) from stage i on.
RECURSIVE setUniformMatrixfv(_, _, _, _, _, _, _, _)
setUniformMatrixfv(st, i, p, layout, location, count, transpose, value) ==
    IF i > Len(p.linkedShaderStages) \/ st.fault # "none" THEN st
    ELSE LET shaderType    == p.linkedShaderStages[i]
             locationInfo  == p.uniformLocations[location + 1]
             linkedUniform == p.uniforms[locationInfo.index]
             layoutInfo    == layout[shaderType][location + 1]
         IN  setUniformMatrixfv(
                MatrixStage(st, shaderType, layoutInfo, linkedUniform, count,
                            locationInfo.arrayIndex, transpose, value),
                i + 1, p, layout, location, count, transpose, value)

----------------------------------------------------------------------------
(* Reads.                                                                  *)

\* A read that takes element 0 whatever the array index is.
ReadFromDefaultUniformBlockElementZero(componentCount, arrayIndex, layoutInfo, data) ==
    IF layoutInfo.offset = -1 THEN [result |-> <<>>, fault |-> "assert"]
    ELSE [result |-> ReadValues(data, layoutInfo.offset, componentCount),
          fault |-> "none"]

\* ReadFromDefaultUniformBlock<T>: ASSERT(layoutInfo.offset != -1), then one
\* element of componentCount values; both branches read at
\* offset + arrayIndex * arrayStride.
ReadFromDefaultUniformBlock(componentCount, arrayIndex, layoutInfo, data) ==
    IF layoutInfo.offset = -1 THEN [result |-> <<>>, fault |-> "assert"]
    ELSE LET elementSize == SizeofT * componentCount
             readPtr     == layoutInfo.offset + arrayIndex * layoutInfo.arrayStride
         IN  IF readPtr < 0 \/ readPtr + elementSize > Len(data)
             THEN [result |-> <<>>, fault |-> "trap"]
             ELSE [result |-> ReadValues(data, readPtr, componentCount), fault |-> "none"]

\* GetMatrixUniform(type, dataOut, source, transpose = false): dataOut is column
\* major, column c of the source starts 4 floats after column c - 1.
GetMatrixUniform(type, data, source) ==
    LET cols == typeInfo(type).cols
        rows == typeInfo(type).rows
    IN  IF source < 0 \/ source + ((cols - 1) * 4 + rows) * SizeofT > Len(data)
        THEN [result |-> <<>>, fault |-> "trap"]
        ELSE [result |-> [k \in 1..(cols * rows) |->
                            ReadValues(data,
                                       source + (((k - 1) \div rows) * 4 + ((k - 1) % rows)) * SizeofT,
                                       1)[1]],
              fault |-> "none"]

\* A read that decodes the chosen stage's buffer with the record of the last
\* linked stage.
getUniformImplLastStageRecord(p, layout, data, location) ==
    LET locationInfo  == p.uniformLocations[location + 1]
        linkedUniform == p.uniforms[locationInfo.index]
        shaderType    == getFirstShaderTypeWhereActive(linkedUniform)
        layoutInfo    == layout[p.linkedShaderStages[Len(p.linkedShaderStages)]][location + 1]
        r == IF IsMatrixType(linkedUniform.type)
             THEN GetMatrixUniform(linkedUniform.type, data[shaderType],
                                   layoutInfo.offset
                                     + locationInfo.arrayIndex * layoutInfo.arrayStride)
             ELSE ReadFromDefaultUniformBlock(
                      typeInfo(linkedUniform.type).componentCount,
                      locationInfo.arrayIndex, layoutInfo, data[shaderType])
    IN  [result |-> r.result, fault |-> r.fault, shaderType |-> shaderType]

\* getUniformImpl<T>(location, v, entryPointType): [result, fault, shaderType].
getUniformImpl(p, layout, data, location) ==
    LET locationInfo  == p.uniformLocations[location + 1]
        linkedUniform == p.uniforms[locationInfo.index]
        shaderType    == getFirstShaderTypeWhereActive(linkedUniform)
    IN  IF shaderType = "InvalidEnum"
        THEN [result |-> <<>>, fault |-> "assert", shaderType |-> shaderType]
        ELSE LET layoutInfo == layout[shaderType][location + 1]
                 r == IF IsMatrixType(linkedUniform.type)
                      THEN GetMatrixUniform(linkedUniform.type, data[shaderType],
                                            layoutInfo.offset
                                              + locationInfo.arrayIndex * layoutInfo.arrayStride)
                      ELSE ReadFromDefaultUniformBlock(
                               typeInfo(linkedUniform.type).componentCount,
                               locationInfo.arrayIndex, layoutInfo, data[shaderType])
             IN  [result |-> r.result, fault |-> r.fault, shaderType |-> shaderType]

----------------------------------------------------------------------------
(* Link: reset, then initDefaultUniformBlocks.  The executable's state is   *)
(* ex = [layout, data, guard, dirty].                                       *)

Canary(n) == [i \in 1..n |-> 205]

\* ProgramVk::reset -> ProgramExecutableVk::reset: every layout record, buffer
\* and dirty bit of the previous link is discarded.
reset(ex) ==
    [layout |-> ShaderMap(LAMBDA s : <<>>),
     data   |-> ShaderMap(LAMBDA s : <<>>),
     guard  |-> ShaderMap(LAMBDA s : Canary(GuardBytes)),
     dirty  |-> {},
     fault  |-> ex.fault]

\* ProgramExecutableVk::resizeUniformBlockMemory: each linked stage's buffer is
\* resized to its required size and starts as zeros.
resizeUniformBlockMemory(p, ex, layoutMap) ==
    [ex EXCEPT !.data = ShaderMap(LAMBDA s : IF hasLinkedShaderStage(p, s)
                                             THEN Zeros(layoutMap[s].size)
                                             ELSE ex.data[s])]

\* ProgramVk::initDefaultUniformBlocks with the encodings layoutMap of
\* generateUniformLayoutMapping.
initDefaultUniformBlocksWith(p, ex, layoutMap) ==
    resizeUniformBlockMemory(p, initDefaultUniformLayoutMapping(p, layoutMap, 1, ex),
                             layoutMap)

initDefaultUniformBlocks(p, ex) ==
    initDefaultUniformBlocksWith(p, ex, generateUniformLayoutMapping(p))

\* A link that rebuilds on top of the previous link's state.
linkWithoutReset(p, ex) == initDefaultUniformBlocks(p, ex)

\* ProgramVk::link on the path where every collaborator succeeds.
link(p, ex) == initDefaultUniformBlocks(p, reset(ex))

----------------------------------------------------------------------------
(* The state machine.                                                      *)

Executable == [layout |-> uniformLayout, data |-> uniformData, guard |-> guard,
               dirty |-> dirty, fault |-> fault]

\* last: op is the last operation; location .. transpose are the arguments of
\* the last set-uniform call since the last link (location -1: none yet);
\* readLocation .. shaderType are the last operation's when it is a read (its
\* result and the stage it read), shaderType also the stage of a clearDirty.
NoOp ==
    [op |-> "none", location |-> -1, count |-> 0, entryPointType |-> "GL_NONE",
     seed |-> 0, transpose |-> FALSE, readLocation |-> -1,
     readEntryPointType |-> "GL_NONE", result |-> <<>>, shaderType |-> "InvalidEnum"]

\* last after an operation that is not a write: the last write's arguments stay.
AfterOp(op, readLocation, readEntryPointType, result, shaderType) ==
    [last EXCEPT !.op = op, !.readLocation = readLocation,
                 !.readEntryPointType = readEntryPointType, !.result = result,
                 !.shaderType = shaderType]

\* blockOut before the encoder ran on blockUniforms.
NotEncoded == [encoded |-> FALSE, map |-> <<>>, size |-> 0]

Init ==
    /\ linked = FALSE
    /\ program = 0
    /\ uniformLayout = ShaderMap(LAMBDA s : <<>>)
    /\ uniformData = ShaderMap(LAMBDA s : <<>>)
    /\ guard = ShaderMap(LAMBDA s : Canary(GuardBytes))
    /\ dirty = {}
    /\ fault = "none"
    /\ last = NoOp
    /\ nWrites = 0
    /\ blockUniforms = <<>>
    /\ blockOut = NotEncoded

\* link() returns Continue: the executable is rebuilt for program pi.
Link(pi) ==
    /\ fault = "none"
    /\ \E ex \in {link(Programs[pi], Executable)} :
           /\ uniformLayout' = ex.layout
           /\ uniformData' = ex.data
           /\ guard' = ex.guard
           /\ dirty' = ex.dirty
           /\ fault' = ex.fault
    /\ linked' = TRUE
    /\ program' = pi
    /\ last' = [NoOp EXCEPT !.op = "link"]
    /\ UNCHANGED <<nWrites, blockUniforms, blockOut>>

\* link() returns early because initShaders failed (lines 235-238): the
\* executable was reset and nothing was rebuilt.
LinkInitShadersFailed ==
    /\ fault = "none"
    /\ \E ex \in {reset(Executable)} :
           /\ uniformLayout' = ex.layout
           /\ uniformData' = ex.data
           /\ guard' = ex.guard
           /\ dirty' = ex.dirty
    /\ linked' = FALSE
    /\ program' = 0
    /\ last' = [NoOp EXCEPT !.op = "linkFailed"]
    /\ UNCHANGED <<fault, nWrites, blockUniforms, blockOut>>

\* ProgramVk::destroy.
Destroy ==
    /\ fault = "none"
    /\ linked
    /\ \E ex \in {reset(Executable)} :
           /\ uniformLayout' = ex.layout
           /\ uniformData' = ex.data
           /\ guard' = ex.guard
           /\ dirty' = ex.dirty
    /\ linked' = FALSE
    /\ last' = [NoOp EXCEPT !.op = "destroy"]
    /\ UNCHANGED <<program, fault, nWrites, blockUniforms, blockOut>>

\* Locations a caller may pass: used, not ignored, of a default-block uniform.
ValidLocations(p) ==
    {l \in 0..(Len(p.uniformLocations) - 1) :
        /\ p.uniformLocations[l + 1].index # 0
        /\ ~p.uniformLocations[l + 1].ignored
        /\ p.uniforms[p.uniformLocations[l + 1].index].inDefaultBlock}

UniformAt(p, location) == p.uniforms[p.uniformLocations[location + 1].index]

\* The counts a caller passes.
Counts == 1..MaxCount

\* setUniform{1,2,3,4}{f,i,ui}v(location, count, v).
SetUniform(location, count, entryPointType, seed, ub) ==
    /\ fault = "none"
    /\ linked
    /\ nWrites < MaxWrites
    /\ LET p == Programs[program]
           u == UniformAt(p, location)
           v == SrcArray(EntryPointT(entryPointType), seed,
                         count * typeInfo(u.type).componentCount)
       IN  /\ location \in ValidLocations(p)
           /\ count \in Counts
           /\ \/ u.type = entryPointType
              \/ u.type = VariableBoolVectorType(entryPointType)
              \/ isSampler(u) /\ entryPointType = "GL_INT"
           /\ IF isSampler(u)
              THEN \* setUniform1iv returns before setUniformImpl (lines 518-523)
                   UNCHANGED <<uniformData, guard, dirty, fault>>
              ELSE \E st \in {setUniformImpl(
                                 [data |-> uniformData, guard |-> guard, dirty |-> dirty,
                                  fault |-> "none"],
                                 1, p, uniformLayout, location, count, v, entryPointType, ub)} :
                       /\ uniformData' = st.data
                       /\ guard' = st.guard
                       /\ dirty' = st.dirty
                       /\ fault' = st.fault
    /\ last' = [NoOp EXCEPT !.op = "set", !.location = location, !.count = count,
                            !.entryPointType = entryPointType, !.seed = seed]
    /\ nWrites' = nWrites + 1
    /\ UNCHANGED <<linked, program, uniformLayout, blockUniforms, blockOut>>

\* setUniformMatrix{2,3,4,2x3,...}fv(location, count, transpose, value).
SetUniformMatrix(location, count, transpose, seed) ==
    /\ fault = "none"
    /\ linked
    /\ nWrites < MaxWrites
    /\ LET p == Programs[program]
           u == UniformAt(p, location)
           value == SrcArray("GL_FLOAT", seed, count * typeInfo(u.type).componentCount)
       IN  /\ location \in ValidLocations(p)
           /\ count \in Counts
           /\ IsMatrixType(u.type)
           /\ \E st \in {setUniformMatrixfv(
                            [data |-> uniformData, guard |-> guard, dirty |-> dirty,
                             fault |-> "none"],
                            1, p, uniformLayout, location, count, transpose, value)} :
                  /\ uniformData' = st.data
                  /\ dirty' = st.dirty
                  /\ fault' = st.fault
                  /\ last' = [NoOp EXCEPT !.op = "setMatrix", !.location = location,
                                          !.count = count, !.entryPointType = u.type,
                                          !.seed = seed, !.transpose = transpose]
    /\ nWrites' = nWrites + 1
    /\ UNCHANGED <<linked, program, uniformLayout, guard, blockUniforms, blockOut>>

\* getUniform{f,i,ui}v(location, params).
GetUniform(location, entryPointType) ==
    /\ fault = "none"
    /\ linked
    /\ LET p == Programs[program]
           u == UniformAt(p, location)
       IN  /\ location \in ValidLocations(p)
           /\ ~isSampler(u) /\ ~isImage(u)
           /\ \/ typeInfo(u.type).componentType = entryPointType
              \/ typeInfo(u.type).componentType = VariableBoolVectorType(entryPointType)
           /\ \E r \in {getUniformImpl(p, uniformLayout, uniformData, location)} :
                  /\ fault' = r.fault
                  /\ last' = AfterOp("get", location, entryPointType, r.result,
                                     r.shaderType)
    /\ UNCHANGED <<linked, program, uniformLayout, uniformData, guard, dirty, nWrites,
                   blockUniforms, blockOut>>

\* The upload step clears one stage's dirty bit.
ClearDirty(shaderType) ==
    /\ fault = "none"
    /\ linked
    /\ shaderType \in dirty
    /\ dirty' = dirty \ {shaderType}
    /\ last' = AfterOp("clearDirty", -1, "GL_NONE", <<>>, shaderType)
    /\ UNCHANGED <<linked, program, uniformLayout, uniformData, guard, fault, nWrites,
                   blockUniforms, blockOut>>

\* The entry-point types a caller may use on uniform u: the declared type, the
\* type whose boolean vector type is the declared type, GL_INT for a sampler.
SetEntryPointsOf(u) ==
    {e \in SetUniformEntryPoints :
        \/ u.type = e
        \/ u.type = VariableBoolVectorType(e)
        \/ isSampler(u) /\ e = "GL_INT"}

\* The entry point a caller reads uniform u through: the one of its component
\* type, getUniformiv for a boolean uniform.
GetEntryPointsOf(u) ==
    {e \in GetUniformEntryPoints :
        \/ typeInfo(u.type).componentType = e
        \/ typeInfo(u.type).componentType = "GL_BOOL" /\ e = "GL_INT"}

\* The outcomes of undefined behaviour a call can meet: only the boolean
\* branch stores without a bounds check, and only a store past the end of some
\* stage's buffer is undefined.
UBOutcomes(p, layout, data, location, count, entryPointType) ==
    LET u == UniformAt(p, location)
    IN  IF /\ u.type # entryPointType
           /\ ~isSampler(u)
           /\ \E s \in ShaderTypeSet :
                 /\ hasLinkedShaderStage(p, s)
                 /\ layout[s][location + 1].offset # -1
                 /\ CoerceEnd(count, p.uniformLocations[location + 1].arrayIndex,
                              typeInfo(u.type).componentCount, layout[s][location + 1])
                      > Len(data[s])
        THEN {"corrupt", "trap"}
        ELSE {"corrupt"}

LinkedProgram == Programs[program]

Next ==
    \/ \E pi \in 1..Len(Programs) : Link(pi)
    \/ LinkInitShadersFailed
    \/ Destroy
    \/ /\ linked
       /\ \E location \in ValidLocations(LinkedProgram) :
          \E entryPointType \in SetEntryPointsOf(UniformAt(LinkedProgram, location)) :
          \E count \in Counts, seed \in Seeds :
          \E ub \in UBOutcomes(LinkedProgram, uniformLayout, uniformData, location, count,
                                entryPointType) :
             SetUniform(location, count, entryPointType, seed, ub)
    \/ /\ linked
       /\ \E location \in ValidLocations(LinkedProgram) :
          \E count \in Counts, transpose \in BOOLEAN, seed \in Seeds :
             SetUniformMatrix(location, count, transpose, seed)
    \/ /\ linked
       /\ \E location \in ValidLocations(LinkedProgram) :
          \E entryPointType \in GetEntryPointsOf(UniformAt(LinkedProgram, location)) :
             GetUniform(location, entryPointType)
    \/ \E shaderType \in ShaderTypeSet : ClearDirty(shaderType)

Spec == Init /\ [][Next]_vars

----------------------------------------------------------------------------
(* The layout encoder on its own: InitDefaultUniformBlock is a function of  *)
(* one stage's variable list, applied here to every list of up to          *)
(* MaxUniforms members drawn from BlockTypes and BlockArraySizes.          *)

\* Member types of the lists: the scalar and the vectors, a matrix, an opaque type.
BlockTypes ==
    {"GL_FLOAT", "GL_FLOAT_VEC2", "GL_FLOAT_VEC3", "GL_FLOAT_VEC4", "GL_FLOAT_MAT2",
     "GL_SAMPLER_2D"}

\* arraySize of a member: 0 for a non-array.
BlockArraySizes == {0, MaxArraySize}

\* The name of the i-th member of a list.
BlockUniformName(i) == <<"u", ToString(i)>>

programVars == <<linked, program, uniformLayout, uniformData, guard, dirty, fault, last,
                 nWrites>>

\* One more variable is declared in the stage.
DeclareUniform(type, arraySize) ==
    /\ Len(blockUniforms) < MaxUniforms
    /\ blockUniforms' = Append(blockUniforms,
                               ShaderVariable(BlockUniformName(Len(blockUniforms) + 1),
                                              type, arraySize))
    /\ blockOut' = NotEncoded
    /\ UNCHANGED programVars

\* InitDefaultUniformBlock(blockUniforms, &layoutMap, &requiredBufferSize).
EncodeBlock ==
    /\ ~blockOut.encoded
    /\ \E r \in {InitDefaultUniformBlock(blockUniforms)} :
           blockOut' = [encoded |-> TRUE, map |-> r.map, size |-> r.size]
    /\ UNCHANGED <<blockUniforms, programVars>>

EncoderNext ==
    \/ \E type \in BlockTypes, arraySize \in BlockArraySizes : DeclareUniform(type, arraySize)
    \/ EncodeBlock

EncoderSpec == Init /\ [][EncoderNext]_vars

----------------------------------------------------------------------------
(* Properties.                                                             *)

IsBoolType(type) == typeInfo(type).componentType = "GL_BOOL"

\* The uniform and the source array of the last set-uniform call.
LastUniform == UniformAt(LinkedProgram, last.location)

LastSource ==
    SrcArray(EntryPointT(last.entryPointType), last.seed,
             last.count * typeInfo(LastUniform.type).componentCount)

\* The last operation read the location that the last write, of one element,
\* wrote, with the write's component type.
ReadBackOfOneElement ==
    /\ linked
    /\ last.op = "get"
    /\ last.location # -1
    /\ last.count = 1
    /\ last.readLocation = last.location
    /\ last.readEntryPointType = EntryPointT(last.entryPointType)

\* C1 as stated: a write of one element of any supported type followed by a
\* read of the same location with the same component type returns exactly the
\* written value.
C1_RoundTripAsStated ==
    (ReadBackOfOneElement /\ fault = "none") => last.result = LastSource

\* What the last write stores of its source: the source itself, its
\* GL_TRUE / GL_FALSE coercion for a boolean uniform.
LastStored ==
    IF IsBoolType(LastUniform.type)
    THEN [k \in 1..Len(LastSource) |->
             IF IsZero(EntryPointT(last.entryPointType), LastSource[k])
             THEN GL_FALSE ELSE GL_TRUE]
    ELSE LastSource

\* C1: for a uniform that has a layout record in the stage the read uses, a
\* write of one element (a matrix with transpose = GL_FALSE) followed by a
\* read of the same location with the same component type completes and
\* returns exactly the written value, its GL_TRUE / GL_FALSE coercion when the
\* uniform is boolean.
C1_RoundTrip ==
    ( /\ ReadBackOfOneElement
      /\ ~last.transpose
      /\ last.shaderType \in ShaderTypeSet
      /\ uniformLayout[last.shaderType][last.readLocation + 1].offset # -1 )
    => (fault = "none" /\ last.result = LastStored)

\* A matrix written at array element 1 was read back.
C1_Witness ==
    /\ ReadBackOfOneElement
    /\ fault = "none"
    /\ last.op = "get"
    /\ IsMatrixType(LastUniform.type)
    /\ ~last.transpose
    /\ LinkedProgram.uniformLocations[last.readLocation + 1].arrayIndex = 1
    /\ last.result = LastSource
    /\ \E k \in 1..Len(last.result) : last.result[k] # 0

\* The step is a set-uniform call (of any of the three kinds).
WriteStep == last'.op \in {"set", "setMatrix"}

\* The record of the location a write step writes, in stage s.
WrittenRecord(s) == uniformLayout[s][last'.location + 1]

\* C2: a write never clears a dirty bit, leaves the bit of every stage in which
\* the written location's offset is -1 as it was, and a completed write sets
\* the bit of every stage in which the offset is not -1; a read changes no
\* bit, and a bit that is set stays set until clearDirty of its stage (or a
\* relink or destroy), which clears that bit only.
C2_DirtyTracking ==
    [][ /\ WriteStep =>
              /\ dirty \subseteq dirty'
              /\ \A s \in ShaderTypeSet :
                    WrittenRecord(s).offset = -1 => ((s \in dirty') <=> (s \in dirty))
              /\ fault' = "none" =>
                    \A s \in ShaderTypeSet :
                       WrittenRecord(s).offset # -1 => s \in dirty'
        /\ last'.op = "get" => dirty' = dirty
        /\ last'.op = "clearDirty" => dirty' = dirty \ {last'.shaderType}
        /\ last'.op \notin {"link", "linkFailed", "destroy"} =>
              \A s \in dirty \ dirty' :
                 last'.op = "clearDirty" /\ last'.shaderType = s
      ]_vars

\* After two writes, the second to a location that the vertex stage does not
\* lay out, the vertex stage's bit from the first write is still set.
C2_Witness ==
    /\ linked
    /\ fault = "none"
    /\ nWrites = 2
    /\ last.op \in {"set", "setMatrix"}
    /\ uniformLayout["Vertex"][last.location + 1].offset = -1
    /\ uniformLayout["Fragment"][last.location + 1].offset # -1
    /\ dirty = {"Vertex", "Fragment"}

\* The uniform, the array index and the element size of a write step.
WrittenUniform == UniformAt(LinkedProgram, last'.location)

WrittenArrayIndex == LinkedProgram.uniformLocations[last'.location + 1].arrayIndex

WrittenElementSize == SizeofT * typeInfo(WrittenUniform.type).componentCount

\* One past the last byte of the range a write step computes in stage s: count
\* tight elements for the contiguous copy, the last strided element's end for
\* the per-element copy and the boolean branch, the last matrix's last column
\* for a matrix.
WrittenEnd(s) ==
    LET rec   == WrittenRecord(s)
        first == rec.offset + WrittenArrayIndex * rec.arrayStride
    IN  IF last'.op = "setMatrix"
        THEN first + (last'.count - 1) * rec.arrayStride
                   + (typeInfo(WrittenUniform.type).cols - 1) * rec.matrixStride
                   + typeInfo(WrittenUniform.type).rows * SizeofT
        ELSE IF /\ WrittenUniform.type = last'.entryPointType
                /\ (rec.arrayStride = 0 \/ rec.arrayStride = WrittenElementSize)
        THEN first + WrittenElementSize * last'.count
        ELSE first + (last'.count - 1) * rec.arrayStride + WrittenElementSize

\* The range a write step computes in stage s runs past the stage's buffer.
ExceedsBuffer(s) ==
    /\ ~isSampler(WrittenUniform)
    /\ WrittenRecord(s).offset # -1
    /\ WrittenEnd(s) > Len(uniformData[s])

\* C3 as stated: on every write path a write whose computed byte range runs
\* past a stage's buffer is a fatal violation detected before any byte of that
\* buffer is copied, and no write changes a byte at or beyond the end of a
\* buffer or the size of a buffer.
C3_BoundsViolationDetected ==
    [][ WriteStep =>
           /\ \A s \in ShaderTypeSet :
                 ExceedsBuffer(s) =>
                    (fault' = "assert" /\ uniformData'[s] = uniformData[s])
           /\ guard' = guard
           /\ \A s \in ShaderTypeSet : Len(uniformData'[s]) = Len(uniformData[s])
      ]_vars

\* The source array of a write step.
WrittenSource ==
    SrcArray(EntryPointT(last'.entryPointType), last'.seed,
             last'.count * typeInfo(WrittenUniform.type).componentCount)

\* Byte b (from 0) of stage s lies in the element k that a write step places.
InWrittenElement(s, b, k) ==
    LET start == WrittenRecord(s).offset
                   + (WrittenArrayIndex + k) * WrittenRecord(s).arrayStride
    IN  start <= b /\ b < start + WrittenElementSize

\* The byte of the source that belongs at byte b of stage s, inside element k.
WrittenSourceByte(s, b, k) ==
    LET start == WrittenRecord(s).offset
                   + (WrittenArrayIndex + k) * WrittenRecord(s).arrayStride
        j     == b - start
    IN  ToBytes(WrittenSource[k * typeInfo(WrittenUniform.type).componentCount
                                + (j \div SizeofT) + 1])[(j % SizeofT) + 1]

\* C4: a matching-type write of count elements at arrayIndex into a variable
\* whose arrayStride is larger than the tight element size puts source element
\* k at bytes [offset + (arrayIndex + k) * arrayStride, + elementSize) for every
\* k in 0..count-1 and leaves every other byte of the buffer, the padding
\* between the elements included, as it was.
C4_StrideRespectingWrite ==
    [][ ( /\ last'.op = "set"
          /\ fault' = "none"
          /\ WrittenUniform.type = last'.entryPointType )
        => \A s \in ShaderTypeSet :
              ( /\ WrittenRecord(s).offset # -1
                /\ WrittenRecord(s).arrayStride > WrittenElementSize )
              => /\ Len(uniformData'[s]) = Len(uniformData[s])
                 /\ \A b \in 0..(Len(uniformData[s]) - 1) :
                       IF \E k \in 0..(last'.count - 1) : InWrittenElement(s, b, k)
                       THEN \A k \in 0..(last'.count - 1) :
                               InWrittenElement(s, b, k) =>
                                  uniformData'[s][b + 1] = WrittenSourceByte(s, b, k)
                       ELSE uniformData'[s][b + 1] = uniformData[s][b + 1]
      ]_vars

\* Two floats were written at array index 1 of an array whose stride is 16:
\* 1.0 is at element 1, -0.0 at element 2, and the padding after element 1 is
\* still zero.
C4_Witness ==
    /\ linked
    /\ fault = "none"
    /\ last.op = "set"
    /\ last.count = 2
    /\ LastUniform.type = last.entryPointType
    /\ LinkedProgram.uniformLocations[last.location + 1].arrayIndex = 1
    /\ LET rec == uniformLayout["Vertex"][last.location + 1]
           es  == SizeofT * typeInfo(LastUniform.type).componentCount
       IN  /\ rec.offset # -1
           /\ rec.arrayStride > es
           /\ ReadValues(uniformData["Vertex"], rec.offset + rec.arrayStride, 1)
                 = <<LastSource[1]>>
           /\ ReadValues(uniformData["Vertex"], rec.offset + 2 * rec.arrayStride, 1)
                 = <<LastSource[2]>>
           /\ LastSource[1] # 0 /\ LastSource[2] # 0
           /\ \A b \in (rec.offset + rec.arrayStride + es)
                         ..(rec.offset + 2 * rec.arrayStride - 1) :
                 uniformData["Vertex"][b + 1] = 0

\* The last write took the boolean branch and stayed within the elements of
\* its uniform.
CoercedInRange ==
    /\ linked
    /\ last.location # -1
    /\ IsBoolType(LastUniform.type)
    /\ LastUniform.type # last.entryPointType
    /\ LinkedProgram.uniformLocations[last.location + 1].arrayIndex + last.count
          <= getArraySizeProduct(LastUniform)

EmptyExecutable ==
    [layout |-> ShaderMap(LAMBDA s : <<>>),
     data   |-> ShaderMap(LAMBDA s : <<>>),
     guard  |-> ShaderMap(LAMBDA s : Canary(GuardBytes)),
     dirty  |-> {},
     fault  |-> "none"]

\* C6: right after a link, whatever preceded it, no dirty bit is set, every
\* stage's buffer is all zeros and every stage's layout table is the one a
\* first link of the program builds; a read performed after the link and
\* before any write returns zeros.
C6_RelinkResetsState ==
    /\ last.op = "link" =>
          /\ dirty = {}
          /\ \A s \in ShaderTypeSet :
                /\ uniformData[s] = Zeros(Len(uniformData[s]))
                /\ uniformLayout[s] = initDefaultUniformBlocks(LinkedProgram,
                                                               EmptyExecutable).layout[s]
                /\ Len(uniformData[s]) = generateUniformLayoutMapping(LinkedProgram)[s].size
    /\ (linked /\ last.op = "get" /\ last.location = -1 /\ fault = "none") =>
          /\ Len(last.result)
                = typeInfo(UniformAt(LinkedProgram, last.readLocation).type).componentCount
          /\ \A k \in 1..Len(last.result) : last.result[k] = 0

\* After writes and a relink, a read before any new write returned zeros.
C6_Witness ==
    /\ linked
    /\ fault = "none"
    /\ nWrites = MaxWrites
    /\ last.op = "get"
    /\ last.location = -1
    /\ Len(last.result) > 0
    /\ \A k \in 1..Len(last.result) : last.result[k] = 0

\* What a write step stores of the first component of its source.
WrittenFirstStored ==
    IF IsBoolType(WrittenUniform.type)
    THEN IF IsZero(EntryPointT(last'.entryPointType), WrittenSource[1])
         THEN GL_FALSE ELSE GL_TRUE
    ELSE WrittenSource[1]

\* A write step stays within the elements of its uniform.
WrittenInRange ==
    WrittenArrayIndex + last'.count <= getArraySizeProduct(WrittenUniform)

\* C7: in a write step of any kind, every stage whose record of the written
\* location has offset -1 keeps its buffer bytes and its dirty bit, a write to a
\* location that no stage lays out raises no error, and a write within the
\* elements of the uniform completes and writes every stage whose offset is
\* not -1: that stage is dirty and holds the first stored component at
\* offset + arrayIndex * arrayStride.
C7_SentinelOnWrite ==
    [][ WriteStep =>
           /\ \A s \in ShaderTypeSet :
                 WrittenRecord(s).offset = -1 =>
                    /\ uniformData'[s] = uniformData[s]
                    /\ guard'[s] = guard[s]
                    /\ (s \in dirty') <=> (s \in dirty)
           /\ (\A s \in ShaderTypeSet : WrittenRecord(s).offset = -1) =>
                 fault' = "none"
           /\ WrittenInRange =>
                 /\ fault' = "none"
                 /\ \A s \in ShaderTypeSet :
                       WrittenRecord(s).offset # -1 =>
                          /\ s \in dirty'
                          /\ ReadValues(uniformData'[s],
                                        WrittenRecord(s).offset
                                          + WrittenArrayIndex * WrittenRecord(s).arrayStride,
                                        1) = <<WrittenFirstStored>>
      ]_vars

\* A write to a location that only the fragment stage lays out: the vertex
\* buffer is still all zeros and clean, the fragment buffer holds the value
\* and is dirty.
C7_Witness ==
    /\ linked
    /\ fault = "none"
    /\ last.op \in {"set", "setMatrix"}
    /\ uniformLayout["Vertex"][last.location + 1].offset = -1
    /\ uniformLayout["Fragment"][last.location + 1].offset # -1
    /\ dirty = {"Fragment"}
    /\ uniformData["Vertex"] = Zeros(Len(uniformData["Vertex"]))
    /\ ReadValues(uniformData["Fragment"],
                  uniformLayout["Fragment"][last.location + 1].offset
                    + LinkedProgram.uniformLocations[last.location + 1].arrayIndex
                        * uniformLayout["Fragment"][last.location + 1].arrayStride,
                  1)[1] # 0

\* C8 as stated: a read of a location whose record in the stage chosen for the
\* read has offset -1 is a no-op, not an error: it raises no fatal condition.
C8_SentinelOnReadIsNoOp ==
    ( /\ linked
      /\ last.op = "get"
      /\ last.shaderType \in ShaderTypeSet
      /\ uniformLayout[last.shaderType][last.readLocation + 1].offset = -1 )
    => fault = "none"

\* The first stage of the fixed stage order in which uniform u is active.
FirstActiveStage(u) ==
    IF "Vertex" \in u.activeShaders THEN "Vertex" ELSE "Fragment"

\* The component values of one element at byte `at` of buffer mem: a vector's
\* components follow each other, a matrix's columns start 16 bytes apart.
ElementAt(mem, at, type) ==
    [k \in 1..typeInfo(type).componentCount |->
        LET col == IF IsMatrixType(type) THEN (k - 1) \div typeInfo(type).rows ELSE 0
            row == IF IsMatrixType(type) THEN (k - 1) % typeInfo(type).rows ELSE k - 1
        IN  FromBytes(SubSeq(mem, at + col * 16 + row * SizeofT + 1,
                             at + col * 16 + row * SizeofT + SizeofT))]

\* C9: a completed read of a location returns the element found in the buffer
\* of the first stage, in the fixed stage order, in which the variable is
\* active, at that stage's own record (offset + arrayIndex * arrayStride); no
\* other stage's buffer or record enters the result.
C9_ReadStageSelection ==
    (linked /\ last.op = "get" /\ fault = "none") =>
       LET loc   == LinkedProgram.uniformLocations[last.readLocation + 1]
           u     == LinkedProgram.uniforms[loc.index]
           stage == FirstActiveStage(u)
           rec   == uniformLayout[stage][last.readLocation + 1]
       IN  /\ last.shaderType = stage
           /\ last.result = ElementAt(uniformData[stage],
                                      rec.offset + loc.arrayIndex * rec.arrayStride,
                                      u.type)

\* A read returned the nonzero value held by the vertex stage of a uniform
\* that both stages hold, at different offsets.
C9_Witness ==
    /\ linked
    /\ fault = "none"
    /\ last.op = "get"
    /\ last.shaderType = "Vertex"
    /\ uniformLayout["Fragment"][last.readLocation + 1].offset # -1
    /\ uniformLayout["Vertex"][last.readLocation + 1].offset
          # uniformLayout["Fragment"][last.readLocation + 1].offset
    /\ \E k \in 1..Len(last.result) : last.result[k] # 0
    /\ last.result = ReadValues(uniformData["Vertex"],
                                uniformLayout["Vertex"][last.readLocation + 1].offset
                                  + LinkedProgram.uniformLocations[last.readLocation + 1].arrayIndex
                                      * uniformLayout["Vertex"][last.readLocation + 1].arrayStride,
                                Len(last.result))

\* The location is unused, ignored, of a uniform outside the default block, or
\* of a sampler, image or other opaque type.
NoDefaultBlockRecord(p, l) ==
    LET loc == p.uniformLocations[l]
    IN  \/ loc.index = 0
        \/ loc.ignored
        \/ ~p.uniforms[loc.index].inDefaultBlock
        \/ IsSamplerType(p.uniforms[loc.index].type)
        \/ IsOpaqueType(p.uniforms[loc.index].type)

\* The name under which stage tables hold the uniform of location l.
BaseName(p, l) ==
    LET u == p.uniforms[p.uniformLocations[l].index]
    IN  IF isArray(u) THEN SubSeq(u.name, 1, Len(u.name) - 1) ELSE u.name

\* C10: after every link each linked stage's layout table has exactly one
\* entry per uniform location, in uniform-location order (right after the
\* link, entry l is the stage's record of the uniform of location l where the
\* stage declares it), and the entry of every location that is unused,
\* ignored, outside the default block or of an opaque type is the all -1
\* record in every stage; the table stays so until the next link.
C10_ResolverTableShape ==
    linked =>
       \A s \in ShaderTypeSet :
          hasLinkedShaderStage(LinkedProgram, s) =>
             /\ Len(uniformLayout[s]) = Len(LinkedProgram.uniformLocations)
             /\ \A l \in 1..Len(LinkedProgram.uniformLocations) :
                   /\ NoDefaultBlockRecord(LinkedProgram, l) =>
                         uniformLayout[s][l] = [offset |-> -1, arrayStride |-> -1,
                                                matrixStride |-> -1,
                                                isRowMajorMatrix |-> FALSE]
                   /\ ( /\ last.op = "link"
                        /\ ~NoDefaultBlockRecord(LinkedProgram, l)
                        /\ ~LinkedProgram.uniforms[LinkedProgram.uniformLocations[l].index].isFragmentInOut )
                      => \A i \in 1..Len(generateUniformLayoutMapping(LinkedProgram)[s].map) :
                            generateUniformLayoutMapping(LinkedProgram)[s].map[i].name
                               = BaseName(LinkedProgram, l)
                            => uniformLayout[s][l]
                                  = generateUniformLayoutMapping(LinkedProgram)[s].map[i].info

\* A relink after writes of a program with an unused location and a sampler
\* location: both stages' tables have one entry per location.
C10_Witness ==
    /\ linked
    /\ last.op = "link"
    /\ nWrites > 0
    /\ \E l \in 1..Len(LinkedProgram.uniformLocations) :
          LinkedProgram.uniformLocations[l].index = 0
    /\ \E l \in 1..Len(LinkedProgram.uniformLocations) :
          /\ LinkedProgram.uniformLocations[l].index # 0
          /\ isSampler(LinkedProgram.uniforms[LinkedProgram.uniformLocations[l].index])
          /\ uniformLayout["Fragment"][l].offset = -1
    /\ \A s \in ShaderTypeSet :
          Len(uniformLayout[s]) = Len(LinkedProgram.uniformLocations)


----------------------------------------------------------------------------
(* Properties of the layout encoder (EncoderSpec).                         *)

\* Every member of the encoded list is opaque-typed (so also: the list is empty).
AllOpaque == \A i \in 1..Len(blockUniforms) : IsOpaqueType(blockUniforms[i].type)

\* C11: for an empty variable list and for a list whose members are all
\* opaque-typed, the layout encoder returns a total size of 0 and an empty
\* mapping from names to layout records.
C11_EmptyBlock ==
    blockOut.encoded /\ AllOpaque => blockOut.size = 0 /\ blockOut.map = <<>>

\* The encoder ran on a list of opaque members only, one of them an array.
C11_Witness ==
    /\ blockOut.encoded
    /\ Len(blockUniforms) >= 2
    /\ AllOpaque
    /\ \E i \in 1..Len(blockUniforms) : blockUniforms[i].arraySize > 0
    /\ blockOut.size = 0
    /\ blockOut.map = <<>>

\* The non-opaque members of the encoded list, in declaration order: the
\* members that the mapping has a record for.
NonOpaqueUniforms == SelectSeq(blockUniforms, LAMBDA v : ~IsOpaqueType(v.type))

\* The i-th record of the mapping.
RecordOf(i) == blockOut.map[i].info

\* One past the byte range [offset, offset + arrayStride * count) of the i-th
\* non-opaque member, count being its array length (1 for a non-array).
RangeEnd(i) ==
    RecordOf(i).offset + RecordOf(i).arrayStride * getArraySizeProduct(NonOpaqueUniforms[i])

\* One past the bytes the i-th non-opaque member's values occupy: all elements
\* of an array, the columns of a matrix, the components of a scalar or vector.
StorageEnd(i) ==
    LET v == NonOpaqueUniforms[i]
    IN  IF v.arraySize > 0 THEN RangeEnd(i)
        ELSE IF IsMatrixType(v.type)
        THEN RecordOf(i).offset + RecordOf(i).matrixStride * typeInfo(v.type).cols
        ELSE RecordOf(i).offset + SizeofT * typeInfo(v.type).componentCount

\* The half-open byte ranges [a, b) and [c, d) share no byte.
Disjoint(a, b, c, d) == b <= c \/ d <= a

\* C12: for every ordered list of uniform variables of one stage, the mapping
\* has a record for exactly the non-opaque members; no two of their byte ranges
\* [offset, offset + arrayStride * count) overlap, nor do the bytes their values
\* occupy; every offset and stride is non-negative; and every such range lies
\* within [0, totalSize).
C12_NoOverlap ==
    blockOut.encoded =>
        /\ Len(blockOut.map) = Len(NonOpaqueUniforms)
        /\ \A i \in 1..Len(blockOut.map) :
              /\ blockOut.map[i].name = NonOpaqueUniforms[i].name
              /\ RecordOf(i).offset >= 0
              /\ RecordOf(i).arrayStride >= 0
              /\ RecordOf(i).matrixStride >= 0
              /\ RangeEnd(i) <= blockOut.size
              /\ StorageEnd(i) <= blockOut.size
              /\ RecordOf(i).offset < blockOut.size
        /\ \A i, j \in 1..Len(blockOut.map) :
              i # j =>
                 /\ Disjoint(RecordOf(i).offset, RangeEnd(i), RecordOf(j).offset, RangeEnd(j))
                 /\ Disjoint(RecordOf(i).offset, StorageEnd(i),
                             RecordOf(j).offset, StorageEnd(j))

\* The encoder laid out an array, an opaque member and a second array: two
\* records with non-empty ranges, the second starting where the first ends.
C12_Witness ==
    /\ blockOut.encoded
    /\ Len(blockUniforms) = 3
    /\ Len(blockOut.map) = 2
    /\ IsOpaqueType(blockUniforms[2].type)
    /\ blockUniforms[1].arraySize > 0
    /\ blockUniforms[3].arraySize > 0
    /\ RecordOf(1).offset = 0
    /\ RangeEnd(1) = RecordOf(2).offset
    /\ RangeEnd(2) = blockOut.size

\* The encoded list holds only non-opaque scalars and vectors, arrays or not.
OnlyScalarsAndVectors ==
    \A i \in 1..Len(blockUniforms) :
        ~IsOpaqueType(blockUniforms[i].type) /\ ~IsMatrixType(blockUniforms[i].type)

\* The sum of f(1) .. f(n).
RECURSIVE SumTo(_, _)
SumTo(f(_), n) == IF n = 0 THEN 0 ELSE SumTo(f, n - 1) + f(n)

\* The bytes of one element of member v without padding.
TightElementSize(v) == SizeofT * typeInfo(v.type).componentCount

\* Three readings of "padded element size" of the i-th member: the stride of an
\* array element and the tight size of a non-array; the same with a non-array
\* rounded up to its base alignment; every element rounded up to 16 bytes.
PaddedSizeStride(i) ==
    IF blockUniforms[i].arraySize > 0 THEN RecordOf(i).arrayStride
    ELSE TightElementSize(blockUniforms[i])

PaddedSizeAligned(i) ==
    IF blockUniforms[i].arraySize > 0 THEN RecordOf(i).arrayStride
    ELSE Align(TightElementSize(blockUniforms[i]), BaseAlignment(blockUniforms[i]))

PaddedSizeVec4(i) == Align(TightElementSize(blockUniforms[i]), 4 * SizeofT)

\* The sum over the members of (padded element size x array length).
SumOfSizes(paddedSize(_)) ==
    SumTo(LAMBDA i : paddedSize(i) * getArraySizeProduct(blockUniforms[i]),
          Len(blockUniforms))

\* C13 as the specification states it: the total block size of a list of
\* scalars and vectors equals the sum of (padded element size x array length),
\* under whichever of the three readings of the padded size.
C13_TotalSizeAsStated ==
    blockOut.encoded /\ OnlyScalarsAndVectors =>
        \/ blockOut.size = SumOfSizes(PaddedSizeStride)
        \/ blockOut.size = SumOfSizes(PaddedSizeAligned)
        \/ blockOut.size = SumOfSizes(PaddedSizeVec4)

\* The cursor when the i-th member is encoded: the end of the member before it.
CursorBefore(i) == IF i = 1 THEN 0 ELSE StorageEnd(i - 1)

\* The bytes skipped before the i-th member to reach its base alignment.
AlignmentPadding(i) == RecordOf(i).offset - CursorBefore(i)

\* C13: for every variable list containing only non-opaque scalars and vectors
\* (arrays or not), the total block size equals the sum over the variables of
\* (element size x array length, an array element padded to its 16-byte stride)
\* plus the alignment padding before each variable, which is the least number
\* of bytes that brings the cursor to a multiple of the variable's base
\* alignment; so the total is never less than the sum and equals it exactly
\* when no variable needs alignment padding.
C13_TotalSize ==
    blockOut.encoded /\ OnlyScalarsAndVectors =>
        /\ blockOut.size = SumOfSizes(PaddedSizeStride)
                             + SumTo(AlignmentPadding, Len(blockUniforms))
        /\ \A i \in 1..Len(blockUniforms) :
              /\ AlignmentPadding(i) \in 0..(BaseAlignment(blockUniforms[i]) - 1)
              /\ RecordOf(i).offset % BaseAlignment(blockUniforms[i]) = 0
        /\ blockOut.size >= SumOfSizes(PaddedSizeStride)
        /\ (blockOut.size = SumOfSizes(PaddedSizeStride))
             <=> (\A i \in 1..Len(blockUniforms) : AlignmentPadding(i) = 0)

\* The encoder laid out a scalar, a two-component vector and an array: the
\* vector and the array each start after alignment padding, and the total
\* exceeds the sum of the sizes by that padding.
C13_Witness ==
    /\ blockOut.encoded
    /\ OnlyScalarsAndVectors
    /\ Len(blockUniforms) = 3
    /\ blockUniforms[1].type = "GL_FLOAT" /\ blockUniforms[1].arraySize = 0
    /\ blockUniforms[2].type = "GL_FLOAT_VEC2" /\ blockUniforms[2].arraySize = 0
    /\ blockUniforms[3].arraySize > 0
    /\ AlignmentPadding(2) > 0
    /\ blockOut.size > SumOfSizes(PaddedSizeStride)
    /\ blockOut.size = SumOfSizes(PaddedSizeStride)
                         + SumTo(AlignmentPadding, Len(blockUniforms))

----------------------------------------------------------------------------
(* Cross-stage consistency (Spec).                                         *)

\* The bytes of one element at byte `at` of buffer mem: the components of a
\* scalar or vector, the columns of a matrix 16 bytes apart.  Two elements hold
\* the same value exactly when these bytes are the same.
ElementBytes(mem, at, type) ==
    IF IsMatrixType(type)
    THEN [c \in 1..typeInfo(type).cols |->
             SubSeq(mem, at + (c - 1) * 16 + 1,
                    at + (c - 1) * 16 + SizeofT * typeInfo(type).rows)]
    ELSE SubSeq(mem, at + 1, at + SizeofT * typeInfo(type).componentCount)

\* Where stage s holds the element of location l of program p.
ElementOffset(p, layout, s, l) ==
    layout[s][l + 1].offset + p.uniformLocations[l + 1].arrayIndex * layout[s][l + 1].arrayStride

\* For every location and array element, the element stored in every linked
\* stage whose record has offset # -1 is the same, each at the stage's own
\* offset and stride.
StagesAgree(p, layout, data) ==
    \A l \in ValidLocations(p) :
    \A s, t \in ShaderTypeSet :
        ( /\ hasLinkedShaderStage(p, s) /\ hasLinkedShaderStage(p, t)
          /\ layout[s][l + 1].offset # -1
          /\ layout[t][l + 1].offset # -1 ) =>
            ElementBytes(data[s], ElementOffset(p, layout, s, l), UniformAt(p, l).type)
              = ElementBytes(data[t], ElementOffset(p, layout, t, l), UniformAt(p, l).type)

\* C14: the stages agree on every element right after a link; a write within
\* the elements of the written uniform, made when the stages agree, completes
\* and leaves them agreeing; reads and the upload step change no buffer and no
\* record; and a completed read made when the stages agree returns the element
\* that every stage with offset # -1 holds, so its value does not depend on the
\* stage that is chosen.  (Each implication "made when the stages agree => Q"
\* is written Q \/ ~StagesAgree.)
C14_CrossStageConsistency ==
    [][ /\ last'.op = "link" =>
              StagesAgree(Programs[program'], uniformLayout', uniformData')
        /\ (WriteStep /\ WrittenInRange) =>
              \/ /\ fault' = "none"
                 /\ StagesAgree(LinkedProgram, uniformLayout', uniformData')
              \/ ~StagesAgree(LinkedProgram, uniformLayout, uniformData)
        /\ last'.op \in {"get", "clearDirty"} =>
              uniformData' = uniformData /\ uniformLayout' = uniformLayout
        /\ (last'.op = "get" /\ fault' = "none") =>
              \/ \A s \in ShaderTypeSet :
                    ( /\ hasLinkedShaderStage(LinkedProgram, s)
                      /\ uniformLayout[s][last'.readLocation + 1].offset # -1 ) =>
                       last'.result
                         = ElementAt(uniformData[s],
                                     ElementOffset(LinkedProgram, uniformLayout, s,
                                                   last'.readLocation),
                                     UniformAt(LinkedProgram, last'.readLocation).type)
              \/ ~StagesAgree(LinkedProgram, uniformLayout, uniformData)
      ]_vars

\* Two elements of an array that both stages hold at different offsets were
\* written in one call, after an earlier write: both stages hold the same
\* nonzero element, and the stages agree on every element.
C14_Witness ==
    /\ linked
    /\ fault = "none"
    /\ nWrites = 2
    /\ last.op = "set"
    /\ last.count = 2
    /\ LinkedProgram.uniformLocations[last.location + 1].arrayIndex + last.count
          <= getArraySizeProduct(LastUniform)
    /\ uniformLayout["Vertex"][last.location + 1].offset # -1
    /\ uniformLayout["Fragment"][last.location + 1].offset # -1
    /\ uniformLayout["Vertex"][last.location + 1].offset
          # uniformLayout["Fragment"][last.location + 1].offset
    /\ ElementBytes(uniformData["Vertex"],
                    ElementOffset(LinkedProgram, uniformLayout, "Vertex", last.location),
                    LastUniform.type)
          # Zeros(SizeofT * typeInfo(LastUniform.type).componentCount)
    /\ StagesAgree(LinkedProgram, uniformLayout, uniformData)

\* C14 as the specification states it, an in-bounds write being one whose
\* computed byte range stays within the buffer of every stage it writes: such
\* a write, made when the stages agree, leaves them agreeing.
C14_CrossStageConsistencyAsStated ==
    [][ ( /\ WriteStep
          /\ \A s \in ShaderTypeSet : ~ExceedsBuffer(s)
          /\ StagesAgree(LinkedProgram, uniformLayout, uniformData) ) =>
            StagesAgree(LinkedProgram, uniformLayout', uniformData')
      ]_vars
============================================================================
